---------------------------- MODULE Spec2Model ----------------------------
(***************************************************************************)
(* The commit-and-prove attestation engine of ZKo1js: the string encoder,  *)
(* the KYC circuit, the module-level compiled-program cache, createProof / *)
(* verifyProof of src/lib/zk.ts and of the worker (zkWorker.ts), and the   *)
(* /api/submit and /api/verify request handlers.                           *)
(*                                                                         *)
(* JavaScript runs one task at a time: a step of the model is the code     *)
(* that runs between two suspension points on a backend operation          *)
(* (KYCProgram.compile, KYCProgram.prove, KYCProof.fromJSON + verify).     *)
(* An await on an already settled promise only defers to a microtask, and  *)
(* no request or backend completion can run before it, so it is part of    *)
(* the same step.                                                          *)
(***************************************************************************)
EXTENDS Integers, Sequences, FiniteSets, TLC

VARIABLES
    engine,           \* which module this process runs: "lib" (zk.ts) or "worker"
    compiledProgram,  \* the module-level cache: a reference to a
                      \* { verificationKey } object, or NullRef
    op,               \* op[c]: the operation call c runs
    pc,               \* pc[c]: where call c is suspended
    arg,              \* arg[c]: the arguments of call c
    loc,              \* loc[c]: the locals of createProof (fields, expectedHash)
    cp,               \* cp[c]: what `await compileProgram()` gave call c
    result,           \* result[c]: what the promise of call c settled with
    response,         \* response[c]: the HTTP response of a route request
    compileStarts,    \* how many times KYCProgram.compile() was entered
    compileFailed,    \* KYCProgram.compile() has thrown at least once
    proveLog,         \* the (publicInput, witness) pairs KYCProgram.prove was
                      \* entered with, and whether it produced a proof
    fromHere,         \* fromHere[c]: the bundle of verify call c was one that
                      \* createProof of this process had returned when c was issued
    thisWorker,       \* ZkWorkerClient: the field this.worker after construction
                      \* ("worker", "undefined"), Null where there is no client
    workerAlive,      \* the worker's execution context has not been stopped
    terminated,       \* the owner has called terminate() on the client
    settledFrom,      \* settledFrom[c]: the request whose reply settled the
                      \* promise the client gave for call c, 0 while it is pending
    inA, inB,         \* two inputs of a pure function (strings or field triples)
    outA, outB,       \* what the function returned for them, Null before the call
    dbFile,           \* data/db.json: the records array
    upsert,           \* upsert[p]: where upsertRecord call p is, its argument and
                      \* the db object it read
    lastUpsert,       \* lastUpsert[u]: the record of the last completed upsert for u
    got,              \* what the last getRecord call was asked and returned
    form,             \* page: the useState values userId, fullName, dob, idNumber
    loading,          \* page: "null", "submit" or "verify"
    submitResult,     \* page: null, an error object or the success object
    verifyResult,     \* page: null, an error object or { verified, message }
    inflight,         \* page: the worker calls a handler is awaiting
    issued,           \* page: how many worker calls the handlers have made
    sent,             \* page: every worker call made so far (kind and argument)
    returned          \* page: the bundles createProof has resolved with

clientVars == <<thisWorker, workerAlive, terminated, settledFrom>>

pureVars == <<inA, inB, outA, outB>>

storeVars == <<dbFile, upsert, lastUpsert, got>>

pageVars == <<form, loading, submitResult, verifyResult, inflight, issued, sent,
              returned>>

auxVars == <<pureVars, storeVars, pageVars>>

vars == <<engine, compiledProgram, op, pc, arg, loc, cp, result, response,
          compileStarts, compileFailed, proveLog, fromHere, clientVars, auxVars>>

---------------------------------------------------------------------------
(* Bounds of the model *)

\* number of calls (library calls or HTTP requests) a behaviour issues
MaxCalls == 2

\* longest string given to the encoder
MaxLen == 3

\* number of upsertRecord calls a behaviour issues
MaxUpserts == 3

\* number of worker calls the page's handlers make
MaxRequests == 3

\* stand-in for the order of the backend's field (a 255-bit prime in o1js)
FieldModulus == 65521

\* bytes.reduce(... 256n ** BigInt(i) ...)
Base == 256

Calls == 1..MaxCalls

Null == "null"

\* a call that has no arguments yet, a request that has no response yet and a
\* promise that has not settled; what a promise settles with is tagged by its
\* kind: the error of a rejection, or the value the operation returns
NoArgs == [none |-> TRUE]
NoResponse == [none |-> TRUE]
Pending == [pending |-> TRUE]
Rejected(err) == [error |-> err]
Fulfilled(o, value) ==
    CASE o = "compileProgram" -> [program |-> value]
      [] o \in {"createProof", "submit"} -> [bundle |-> value]
      [] o \in {"verifyProof", "verify"} -> [boolean |-> value]
      [] o = "calculateExpectedHash" -> [string |-> value]
      [] o = "sayHi" -> [greeting |-> value]

\* the value inside a settled promise, as `await` yields or throws it
Outcome(r) == r[CHOOSE k \in DOMAIN r : TRUE]

\* `null` of `let compiledProgram = null`.  A reference r > 0 is the object
\* { verificationKey } that call r allocated (compiledProgram = { verificationKey });
\* every such object holds VerificationKey.
NullRef == 0

---------------------------------------------------------------------------
(* Strings are sequences of code units; the model uses ASCII only, where   *)
(* TextEncoder yields one byte per code unit.                              *)

\* mutant: only the first character is raised
ToUpperCase_FirstOnly(str) ==
    [i \in 1..Len(str) |->
        IF i = 1 /\ str[i] >= 97 /\ str[i] <= 122 THEN str[i] - 32 ELSE str[i]]

\* String.prototype.toUpperCase on ASCII
ToUpperCase(str) ==
    [i \in 1..Len(str) |-> IF str[i] >= 97 /\ str[i] <= 122 THEN str[i] - 32 ELSE str[i]]

RECURSIVE Pow(_, _)
Pow(b, e) == IF e = 0 THEN 1 ELSE b * Pow(b, e - 1)

\* mutant: the first byte is the most significant one
RECURSIVE BytesReduce_BigEndian(_, _)
BytesReduce_BigEndian(bytes, n) ==
    IF n = 0 THEN 0
    ELSE BytesReduce_BigEndian(bytes, n - 1) * Base + bytes[n]

\* bytes.reduce((acc, byte, i) => acc + BigInt(byte) * 256n ** BigInt(i), 0n)
RECURSIVE BytesReduce(_, _)
BytesReduce(bytes, n) ==
    IF n = 0 THEN 0
    ELSE BytesReduce(bytes, n - 1) + bytes[n] * Pow(Base, n - 1)

\* Field.from(bigint): the canonical representative modulo the field order
FieldFrom(x) == x % FieldModulus

stringToField(str) == FieldFrom(BytesReduce(str, Len(str)))

\* Poseidon.hash(fields): a fixed deterministic mixing function into the field
RECURSIVE PoseidonAbsorb(_, _)
PoseidonAbsorb(fields, n) ==
    IF n = 0 THEN 7
    ELSE (PoseidonAbsorb(fields, n - 1) * 31 + fields[n] + 1) % FieldModulus

PoseidonHash(fields) == PoseidonAbsorb(fields, Len(fields))

\* Field.prototype.toString(): the decimal digits
RECURSIVE FieldToString(_)
FieldToString(x) ==
    IF x < 10 THEN <<48 + x>>
    ELSE Append(FieldToString(x \div 10), 48 + (x % 10))

IsDigits(str) == \A i \in 1..Len(str) : str[i] >= 48 /\ str[i] <= 57

RECURSIVE DigitsValue(_, _)
DigitsValue(str, n) ==
    IF n = 0 THEN 0 ELSE (DigitsValue(str, n - 1) * 10 + (str[n] - 48)) % FieldModulus

\* Field.from(string): BigInt(string) reduced; throws on text that is no number
FieldFromStringThrows(str) == ~IsDigits(str)
FieldFromString(str) == DigitsValue(str, Len(str))


---------------------------------------------------------------------------
(* The proving backend (o1js) as this program uses it.  A proof string is  *)
(* opaque: it is identified by the statement (public input) it proves, and *)
(* only KYCProgram.prove makes one.                                        *)

\* The circuit: Poseidon.hash([fullName, dob, idNumber]).assertEquals(publicInput)
KYCMethod(publicInput, fullName, dob, idNumber) ==
    PoseidonHash(<<fullName, dob, idNumber>>) = publicInput

\* The proof object KYCProgram.prove returns for a satisfied circuit
BackendProof(publicInput) == [publicInput |-> publicInput, proof |-> publicInput]

\* KYCProgram.verify(proofObj): the proof string proves the proof's public input
BackendVerify(proofObj) == proofObj.proof = proofObj.publicInput

\* The verification key KYCProgram.compile() yields: the same data every time
\* { data: string, hash: Field }; a value is tagged with its JavaScript kind
VerificationKey == [data |-> "vk:KYCProof", hash |-> [field |-> 4242]]

\* JSON.stringify(verificationKey) calls hash.toJSON(): the decimal digits
VerificationKeyToJSON(vk) ==
    [data |-> vk.data, hash |-> [string |-> FieldToString(vk.hash.field)]]

\* proof.toJSON(): the public input as decimal strings, the proof string
ProofToJSON(proofObj) ==
    [publicInput |-> <<FieldToString(proofObj.publicInput)>>, proof |-> proofObj.proof]

\* JSON.stringify(value): a text that parses back to the value
JsonStringify(value) == [parses |-> TRUE, value |-> value]

\* JSON.parse(text) throws a SyntaxError on text that is not JSON
JsonParseThrows(text) == ~text.parses
JsonParse(text) == text.value

\* KYCProof.fromJSON(json) throws on a value that is no proof of this program
FromJSONThrows(json) ==
    \/ Len(json.publicInput) # 1
    \/ FieldFromStringThrows(json.publicInput[1])
FromJSON(json) ==
    [publicInput |-> FieldFromString(json.publicInput[1]), proof |-> json.proof]

\* a serialized proof that cannot be decoded: not JSON, or JSON that is no proof
MalformedProof(text) ==
    JsonParseThrows(text) \/ FromJSONThrows(JsonParse(text))

\* a serialized proof that decodes to a proof the backend accepts
ValidProof(text) ==
    ~MalformedProof(text) /\ BackendVerify(FromJSON(JsonParse(text)))

---------------------------------------------------------------------------
(* createProof, lines 122-129: encode the three fields and hash them *)

\* mutant: idNumber is encoded without case folding
CreateProofFields_NoFold(fullName, dob, idNumber) ==
    << stringToField(ToUpperCase(fullName)),
       stringToField(dob),
       stringToField(idNumber) >>

CreateProofFields(fullName, dob, idNumber) ==
    << stringToField(ToUpperCase(fullName)),
       stringToField(dob),
       stringToField(ToUpperCase(idNumber)) >>

\* mutant: the public input is the hash of the fields before case folding
CreateProofLocals_HashRaw(fullName, dob, idNumber) ==
    [fields |-> CreateProofFields(fullName, dob, idNumber),
     expectedHash |->
        PoseidonHash(<<stringToField(fullName), stringToField(dob), stringToField(idNumber)>>)]

CreateProofLocals(fullName, dob, idNumber) ==
    LET fields == CreateProofFields(fullName, dob, idNumber)
    IN  [fields |-> fields, expectedHash |-> PoseidonHash(fields)]

\* calculateExpectedHash(fullName, dob, idNumber)
calculateExpectedHash(fullName, dob, idNumber) ==
    LET fullNameField == stringToField(ToUpperCase(fullName))
        dobField      == stringToField(dob)
        idNumberField == stringToField(ToUpperCase(idNumber))
    IN  FieldToString(PoseidonHash(<<fullNameField, dobField, idNumberField>>))

\* !fullName || !dob || !idNumber
HasEmptyField(w) == w.fullName = <<>> \/ w.dob = <<>> \/ w.idNumber = <<>>

\* mutant: only fullName is validated
MissingFields_NameOnly(w) == engine = "lib" /\ w.fullName = <<>>

\* if (!fullName || !dob || !idNumber) throw ...  (zk.ts only; the worker has no check)
MissingFields(w) == engine = "lib" /\ HasEmptyField(w)

\* mutant: the proof is serialized without its public input
Bundle_NoPublicInput(proofObj, expectedHash, verificationKey) ==
    [proof           |-> JsonStringify([publicInput |-> <<>>, proof |-> proofObj.proof]),
     publicOutput    |-> FieldToString(expectedHash),
     verificationKey |-> JsonStringify(VerificationKeyToJSON(verificationKey))]

\* the bundle createProof returns
Bundle(proofObj, expectedHash, verificationKey) ==
    [proof           |-> JsonStringify(ProofToJSON(proofObj)),
     publicOutput    |-> FieldToString(expectedHash),
     verificationKey |-> JsonStringify(VerificationKeyToJSON(verificationKey))]

---------------------------------------------------------------------------
(* Inputs *)

\* ("ab", "1", "a1"), ("ab", "1", "a2"), and ("ab", "1", "a1") with one field empty
Witnesses ==
    { [fullName |-> <<97, 98>>, dob |-> <<49>>, idNumber |-> <<97, 49>>],
      [fullName |-> <<97, 98>>, dob |-> <<49>>, idNumber |-> <<97, 50>>],
      [fullName |-> <<>>,       dob |-> <<49>>, idNumber |-> <<97, 49>>],
      [fullName |-> <<97, 98>>, dob |-> <<>>,   idNumber |-> <<97, 49>>],
      [fullName |-> <<97, 98>>, dob |-> <<49>>, idNumber |-> <<>>] }

\* the witnesses a holder proves with (in this process or in another one)
Holders == { w \in Witnesses : ~HasEmptyField(w) }

\* a text that is not JSON
MalformedText == [parses |-> FALSE, value |-> [publicInput |-> <<>>, proof |-> 0]]

\* the bundle a holder of w obtains from createProof
HonestBundle(w) ==
    LET l == CreateProofLocals(w.fullName, w.dob, w.idNumber)
    IN  Bundle(BackendProof(l.expectedHash), l.expectedHash, VerificationKey)

\* a proof text whose public input was edited after proving (one digit more)
TamperedText(text) ==
    LET pub == JsonParse(text).publicInput
    IN  JsonStringify([JsonParse(text) EXCEPT
                          !.publicInput = [i \in 1..Len(pub) |-> Append(pub[i], 48)]])

\* a JSON text that is not a proof: it has no public input
WrongShapeText(text) ==
    JsonStringify([JsonParse(text) EXCEPT !.publicInput = <<>>])

\* what a caller can submit for verification: a holder's bundle, a holder's
\* proof paired with the commitment of another holder, or a bundle whose proof
\* is not JSON, is JSON of the wrong shape, or was tampered with
VerifyInputs ==
    { [proof |-> HonestBundle(w).proof, publicOutput |-> HonestBundle(v).publicOutput,
       verificationKey |-> HonestBundle(w).verificationKey] : w \in Holders, v \in Holders }
    \cup UNION { { [HonestBundle(w) EXCEPT !.proof = MalformedText],
                   [HonestBundle(w) EXCEPT !.proof = WrongShapeText(@)],
                   [HonestBundle(w) EXCEPT !.proof = TamperedText(@)] } :
                 w \in { v \in Holders : v.idNumber = <<97, 49>> } }

\* request bodies of POST /api/submit: userId "u1" or empty
SubmitBodies ==
    { [userId |-> <<117, 49>>, fullName |-> w.fullName, dob |-> w.dob,
       idNumber |-> w.idNumber] : w \in Witnesses }
    \cup { [userId |-> <<>>, fullName |-> w.fullName, dob |-> w.dob,
            idNumber |-> w.idNumber] : w \in { v \in Holders : v.idNumber = <<97, 49>> } }

\* request bodies of POST /api/verify: { zkProof } or {}
VerifyBodies ==
    { [hasProof |-> TRUE, zkProof |-> b] : b \in VerifyInputs }
    \cup { [hasProof |-> FALSE, zkProof |-> b] :
                b \in { x \in VerifyInputs : JsonParseThrows(x.proof) } }

\* the bundles createProof has returned so far in this process
Returned ==
    { Outcome(result[c]) : c \in { d \in Calls : op[d] \in {"createProof", "submit"} /\ pc[d] = "done" } }

---------------------------------------------------------------------------
(* Init *)

NoLocals == [fields |-> <<>>, expectedHash |-> 0]

Upserts == 1..MaxUpserts

\* no pure function is being exercised
IdlePure == inA = Null /\ inB = Null /\ outA = Null /\ outB = Null

\* no page is mounted
IdlePage ==
    /\ form = Null /\ loading = Null /\ submitResult = Null /\ verifyResult = Null
    /\ inflight = {} /\ issued = 0 /\ sent = {} /\ returned = {}

\* the record store is empty and unused
IdleStore ==
    /\ dbFile = <<>>
    /\ upsert = [p \in Upserts |-> [pc |-> "idle"]]
    /\ lastUpsert = Null
    /\ got = Null

Init ==
    /\ engine \in {"lib", "worker"}
    /\ compiledProgram = NullRef
    /\ op = [c \in Calls |-> "none"]
    /\ pc = [c \in Calls |-> "idle"]
    /\ arg = [c \in Calls |-> NoArgs]
    /\ loc = [c \in Calls |-> NoLocals]
    /\ cp = [c \in Calls |-> NullRef]
    /\ result = [c \in Calls |-> Pending]
    /\ response = [c \in Calls |-> NoResponse]
    /\ compileStarts = 0
    /\ compileFailed = FALSE
    /\ proveLog = {}
    /\ fromHere = [c \in Calls |-> FALSE]
    /\ thisWorker = Null
    /\ workerAlive = TRUE
    /\ terminated = FALSE
    /\ settledFrom = [c \in Calls |-> 0]
    /\ IdlePure /\ IdleStore /\ IdlePage

\* calls are issued in order of their number
CanIssue(c) == op[c] = "none" /\ \A d \in Calls : d < c => op[d] # "none"


---------------------------------------------------------------------------
(* The steps of a call.  Resume, Reject and Settle are the continuations   *)
(* of the operation op'[c] that is waiting on compileProgram or on the     *)
(* backend.                                                                *)

IsCreate(o) == o \in {"createProof", "submit"}
IsVerify(o) == o \in {"verifyProof", "verify"}

\* mutant: the error response still carries a verification key
SubmitResponse_Partial(body, ok, value) ==
    IF ok
    THEN [status |-> 200,
          body |-> [ok |-> TRUE, userId |-> body.userId, status |-> "verified",
                    expectedHash |->
                        calculateExpectedHash(body.fullName, body.dob, body.idNumber),
                    zkProof |-> value,
                    message |-> "ZK proof generated successfully. Actual data is hidden."]]
    ELSE [status |-> 500,
          body |-> [error |-> "Failed to generate proof", details |-> value,
                    hint |-> "Make sure o1js is properly installed",
                    verificationKey |->
                        JsonStringify(VerificationKeyToJSON(VerificationKey))]]

\* mutant: the success response echoes the identity fields of the request
SubmitResponse_Echo(body, ok, value) ==
    IF ok
    THEN [status |-> 200,
          body |-> [ok |-> TRUE, userId |-> body.userId, status |-> "verified",
                    fullName |-> body.fullName, dob |-> body.dob,
                    idNumber |-> body.idNumber,
                    expectedHash |->
                        calculateExpectedHash(body.fullName, body.dob, body.idNumber),
                    zkProof |-> value,
                    message |-> "ZK proof generated successfully. Actual data is hidden."]]
    ELSE [status |-> 500,
          body |-> [error |-> "Failed to generate proof", details |-> value,
                    hint |-> "Make sure o1js is properly installed"]]

\* the body of the /api/submit response once createProof has settled
SubmitResponse(body, ok, value) ==
    IF ok
    THEN [status |-> 200,
          body |-> [ok |-> TRUE, userId |-> body.userId, status |-> "verified",
                    expectedHash |->
                        calculateExpectedHash(body.fullName, body.dob, body.idNumber),
                    zkProof |-> value,
                    message |-> "ZK proof generated successfully. Actual data is hidden."]]
    ELSE [status |-> 500,
          body |-> [error |-> "Failed to generate proof", details |-> value,
                    hint |-> "Make sure o1js is properly installed"]]

\* the promise of call c settles: fulfilled with value (ok) or rejected with it
Settle(c, ok, value) ==
    /\ pc' = [pc EXCEPT ![c] = IF ok THEN "done" ELSE "failed"]
    /\ result' = [result EXCEPT ![c] =
                    IF ok THEN Fulfilled(op'[c], value) ELSE Rejected(value)]

\* JSON.stringify of a boolean, and of a Promise (an object without own
\* enumerable properties)
JsonOfBoolean(b) == IF b THEN "true" ELSE "false"
JsonOfPromise == "{}"

\* the response of a request handler whose await on call c has finished:
\* /api/submit answers when createProof settles
Respond(c) ==
    response' = IF op'[c] = "submit" /\ pc'[c] \in {"done", "failed"}
                THEN [response EXCEPT ![c] =
                        SubmitResponse(arg'[c], pc'[c] = "done", Outcome(result'[c]))]
                ELSE response

\* verifyProof, after `await compileProgram()`: JSON.parse(proof.proof),
\* Field.from(proof.publicOutput) (zk.ts only), then the backend is entered
VerifyDecodeThrows(bundle) ==
    \/ JsonParseThrows(bundle.proof)
    \/ engine = "lib" /\ FieldFromStringThrows(bundle.publicOutput)

\* `await compileProgram()` of call c yields the reference r
Resume(c, r) ==
    /\ cp' = [cp EXCEPT ![c] = r]
    /\ CASE op'[c] = "compileProgram" ->
              /\ Settle(c, TRUE, r)
              /\ UNCHANGED proveLog
         [] IsCreate(op'[c]) ->
              \* KYCProgram.prove(expectedHash, fullNameField, dobField, idNumberField)
              /\ pc' = [pc EXCEPT ![c] = "proving"]
              /\ proveLog' = proveLog \cup
                    { [publicInput |-> loc'[c].expectedHash,
                       witness |-> loc'[c].fields, produced |-> FALSE] }
              /\ UNCHANGED result
         [] IsVerify(op'[c]) ->
              /\ IF VerifyDecodeThrows(arg'[c])
                 THEN Settle(c, TRUE, FALSE)            \* catch: return false
                 ELSE /\ pc' = [pc EXCEPT ![c] = "verifying"]
                      /\ UNCHANGED result
              /\ UNCHANGED proveLog

\* mutant: verifyProof awaits compileProgram outside its try block
Reject_NoCatch(c, err) ==
    /\ UNCHANGED <<cp, proveLog>>
    /\ Settle(c, FALSE, err)

\* `await compileProgram()` of call c throws err
Reject(c, err) ==
    /\ UNCHANGED <<cp, proveLog>>
    /\ IF IsVerify(op'[c])
       THEN Settle(c, TRUE, FALSE)                      \* catch: return false
       ELSE Settle(c, FALSE, err)

\* mutant: KYCProgram.compile() is started but not awaited
EnterCompileProgram_NoAwait(c) ==
    /\ Resume(c, compiledProgram)
    /\ compileStarts' = compileStarts + (IF compiledProgram = NullRef THEN 1 ELSE 0)

\* compileProgram(), lines 88-94: return the cached program, or enter
\* KYCProgram.compile() and wait for it
EnterCompileProgram(c) ==
    IF compiledProgram # NullRef
    THEN /\ Resume(c, compiledProgram)
         /\ UNCHANGED compileStarts
    ELSE /\ pc' = [pc EXCEPT ![c] = "compiling"]
         /\ compileStarts' = compileStarts + 1
         /\ UNCHANGED <<cp, result, proveLog>>

\* a direct call of compileProgram()
CallCompileProgram(c) ==
    /\ CanIssue(c)
    /\ op' = [op EXCEPT ![c] = "compileProgram"]
    /\ UNCHANGED <<auxVars, clientVars, engine, compiledProgram, arg, loc, compileFailed, fromHere>>
    /\ EnterCompileProgram(c)
    /\ Respond(c)

\* createProof(fullName, dob, idNumber), lines 112-132
CreateProofEnter(c, w) ==
    IF MissingFields(w)
    THEN /\ Settle(c, FALSE, "Missing required fields")
         /\ UNCHANGED <<loc, cp, compileStarts, proveLog>>
    ELSE /\ loc' = [loc EXCEPT ![c] = CreateProofLocals(w.fullName, w.dob, w.idNumber)]
         /\ EnterCompileProgram(c)

CallCreateProof(c, w) ==
    /\ CanIssue(c)
    /\ op' = [op EXCEPT ![c] = "createProof"]
    /\ arg' = [arg EXCEPT ![c] = w]
    /\ UNCHANGED <<auxVars, clientVars, engine, compiledProgram, compileFailed, fromHere>>
    /\ CreateProofEnter(c, w)
    /\ Respond(c)

\* verifyProof(proof), lines 163-167
CallVerifyProof(c, b) ==
    /\ CanIssue(c)
    /\ op' = [op EXCEPT ![c] = "verifyProof"]
    /\ arg' = [arg EXCEPT ![c] = b]
    /\ fromHere' = [fromHere EXCEPT ![c] = b \in Returned]
    /\ UNCHANGED <<auxVars, clientVars, engine, compiledProgram, loc, compileFailed>>
    /\ EnterCompileProgram(c)
    /\ Respond(c)

\* mutant: calculateExpectedHash compiles the program first
CallCalculateExpectedHash_Compiles(c, w) ==
    /\ CanIssue(c)
    /\ op' = [op EXCEPT ![c] = "calculateExpectedHash"]
    /\ arg' = [arg EXCEPT ![c] = w]
    /\ pc' = [pc EXCEPT ![c] = "done"]
    /\ result' = [result EXCEPT ![c] =
                    Fulfilled("calculateExpectedHash",
                              calculateExpectedHash(w.fullName, w.dob, w.idNumber))]
    /\ compileStarts' = compileStarts + 1
    /\ UNCHANGED <<auxVars, clientVars, engine, compiledProgram, loc, cp, response,
                   compileFailed, proveLog, fromHere>>

\* calculateExpectedHash(fullName, dob, idNumber): zk.ts lines 199-210, and
\* api.calculateExpectedHash of the worker; it awaits nothing
CallCalculateExpectedHash(c, w) ==
    /\ CanIssue(c)
    /\ op' = [op EXCEPT ![c] = "calculateExpectedHash"]
    /\ arg' = [arg EXCEPT ![c] = w]
    /\ pc' = [pc EXCEPT ![c] = "done"]
    /\ result' = [result EXCEPT ![c] =
                    Fulfilled("calculateExpectedHash",
                              calculateExpectedHash(w.fullName, w.dob, w.idNumber))]
    /\ UNCHANGED <<auxVars, clientVars, engine, compiledProgram, loc, cp, response, compileStarts,
                   compileFailed, proveLog, fromHere>>

\* api.sayHi() of the worker
CallSayHi(c) ==
    /\ engine = "worker"
    /\ CanIssue(c)
    /\ op' = [op EXCEPT ![c] = "sayHi"]
    /\ pc' = [pc EXCEPT ![c] = "done"]
    /\ result' = [result EXCEPT ![c] = Fulfilled("sayHi", "Hello from the ZK worker!")]
    /\ UNCHANGED <<auxVars, clientVars, engine, compiledProgram, arg, loc, cp, response, compileStarts,
                   compileFailed, proveLog, fromHere>>

\* KYCProgram.compile() of call c resolves; lines 95-98
BackendCompileOk(c) ==
    /\ pc[c] = "compiling"
    /\ compiledProgram' = c
    /\ UNCHANGED <<auxVars, clientVars, engine, op, arg, loc, compileStarts, compileFailed, fromHere>>
    /\ Resume(c, compiledProgram')
    /\ Respond(c)

\* KYCProgram.compile() of call c throws
BackendCompileFail(c) ==
    /\ pc[c] = "compiling"
    /\ compileFailed' = TRUE
    /\ UNCHANGED <<auxVars, clientVars, engine, compiledProgram, op, arg, loc, compileStarts, fromHere>>
    /\ Reject(c, "CompileError")
    /\ Respond(c)

\* KYCProgram.prove of call c finishes: a proof if the circuit is satisfied,
\* an error if its assertion fails; lines 137-151
BackendProveDone(c) ==
    /\ pc[c] = "proving"
    /\ UNCHANGED <<auxVars, clientVars, engine, compiledProgram, op, arg, loc, cp, compileStarts,
                   compileFailed, fromHere>>
    /\ LET l == loc[c] IN
       IF KYCMethod(l.expectedHash, l.fields[1], l.fields[2], l.fields[3])
       THEN /\ Settle(c, TRUE,
                      Bundle(BackendProof(l.expectedHash), l.expectedHash, VerificationKey))
            /\ proveLog' = proveLog \cup
                  { [publicInput |-> l.expectedHash, witness |-> l.fields,
                     produced |-> TRUE] }
       ELSE /\ Settle(c, FALSE, "ProveError")
            /\ UNCHANGED proveLog
    /\ Respond(c)

\* mutant: a failed prove sends the call back to compile and prove again
BackendProveFail_Retry(c) ==
    /\ pc[c] = "proving"
    /\ pc' = [pc EXCEPT ![c] = "compiling"]
    /\ UNCHANGED <<auxVars, clientVars, engine, compiledProgram, op, arg, loc, cp, result,
                   response, compileStarts, compileFailed, proveLog, fromHere>>

\* KYCProgram.prove of call c fails for lack of resources
BackendProveFail(c) ==
    /\ pc[c] = "proving"
    /\ UNCHANGED <<auxVars, clientVars, engine, compiledProgram, op, arg, loc, cp, compileStarts,
                   compileFailed, proveLog, fromHere>>
    /\ Settle(c, FALSE, "ProveError")
    /\ Respond(c)

\* KYCProof.fromJSON and KYCProgram.verify of call c finish; lines 176-187
BackendVerifyDone(c) ==
    /\ pc[c] = "verifying"
    /\ UNCHANGED <<auxVars, clientVars, engine, compiledProgram, op, arg, loc, cp, compileStarts,
                   compileFailed, proveLog, fromHere>>
    /\ LET proofJson == JsonParse(arg[c].proof) IN
       IF FromJSONThrows(proofJson)
       THEN Settle(c, TRUE, FALSE)                      \* catch: return false
       ELSE Settle(c, TRUE, BackendVerify(FromJSON(proofJson)))
    /\ Respond(c)

---------------------------------------------------------------------------
(* The request handlers (they import src/lib/zk.ts) *)

\* POST /api/submit
PostSubmit(c, body) ==
    /\ engine = "lib"
    /\ CanIssue(c)
    /\ op' = [op EXCEPT ![c] = "submit"]
    /\ arg' = [arg EXCEPT ![c] = body]
    /\ UNCHANGED <<auxVars, clientVars, engine, compiledProgram, compileFailed, fromHere>>
    /\ IF body.userId = <<>> \/ body.fullName = <<>> \/ body.dob = <<>>
          \/ body.idNumber = <<>>
       THEN /\ pc' = [pc EXCEPT ![c] = "failed"]
            /\ response' = [response EXCEPT ![c] =
                              [status |-> 400, body |-> [error |-> "missing fields"]]]
            /\ UNCHANGED <<loc, cp, result, compileStarts, proveLog>>
       ELSE /\ CreateProofEnter(c, body)
            /\ Respond(c)

\* POST /api/verify: `const verified = verifyProof(zkProof)` is not awaited, so
\* the response is built from the pending promise, which JSON renders as {}
PostVerify(c, body) ==
    /\ engine = "lib"
    /\ CanIssue(c)
    /\ op' = [op EXCEPT ![c] = "verify"]
    /\ UNCHANGED <<auxVars, clientVars, engine, compiledProgram, loc, compileFailed>>
    /\ IF ~body.hasProof
       THEN /\ pc' = [pc EXCEPT ![c] = "failed"]
            /\ response' = [response EXCEPT ![c] =
                              [status |-> 400, body |-> [error |-> "zkProof required"]]]
            /\ UNCHANGED <<arg, cp, result, compileStarts, proveLog, fromHere>>
       ELSE /\ arg' = [arg EXCEPT ![c] = body.zkProof]
            /\ fromHere' = [fromHere EXCEPT ![c] = body.zkProof \in Returned]
            /\ EnterCompileProgram(c)
            /\ response' = [response EXCEPT ![c] =
                              [status |-> 200, body |-> [verified |-> JsonOfPromise]]]

---------------------------------------------------------------------------

Next ==
    \/ \E c \in Calls : CallCompileProgram(c)
    \/ \E c \in Calls, w \in Witnesses : CallCreateProof(c, w)
    \/ \E c \in Calls, b \in VerifyInputs : CallVerifyProof(c, b)
    \/ \E c \in Calls, w \in Witnesses : CallCalculateExpectedHash(c, w)
    \/ \E c \in Calls : CallSayHi(c)
    \/ \E c \in Calls, body \in SubmitBodies : PostSubmit(c, body)
    \/ \E c \in Calls, body \in VerifyBodies : PostVerify(c, body)
    \/ \E c \in Calls : BackendCompileOk(c)
    \/ \E c \in Calls : BackendCompileFail(c)
    \/ \E c \in Calls : BackendProveDone(c)
    \/ \E c \in Calls : BackendProveFail(c)
    \/ \E c \in Calls : BackendVerifyDone(c)

Spec == Init /\ [][Next]_vars

---------------------------------------------------------------------------
(* Callers.  A caller uses src/lib/zk.ts directly, or the page uses the    *)
(* worker through ZkWorkerClient: each client method posts a request to    *)
(* the worker, whose api method runs there, and the reply settles the      *)
(* promise the client returned.                                            *)

\* after new ZkWorkerClient(): the class that declares `worker!: Worker` keeps
\* the Worker in a local constant and leaves this.worker undefined, the other
\* class assigns this.worker
InitClient ==
    /\ engine \in {"lib", "worker"}
    /\ thisWorker \in (IF engine = "lib" THEN {Null} ELSE {"undefined", "worker"})
    /\ workerAlive = TRUE
    /\ terminated = FALSE
    /\ settledFrom = [c \in Calls |-> 0]
    /\ IdlePure /\ IdleStore /\ IdlePage
    /\ compiledProgram = NullRef
    /\ op = [c \in Calls |-> "none"]
    /\ pc = [c \in Calls |-> "idle"]
    /\ arg = [c \in Calls |-> NoArgs]
    /\ loc = [c \in Calls |-> NoLocals]
    /\ cp = [c \in Calls |-> NullRef]
    /\ result = [c \in Calls |-> Pending]
    /\ response = [c \in Calls |-> NoResponse]
    /\ compileStarts = 0
    /\ compileFailed = FALSE
    /\ proveLog = {}
    /\ fromHere = [c \in Calls |-> FALSE]

\* what the page sends through the client: the identity ("ab", "1", "a1"), its
\* bundle, and a bundle whose proof is not JSON
ClientWitnesses == { w \in Holders : w.idNumber = <<97, 49>> }
ClientVerifyInputs ==
    UNION { { HonestBundle(w), [HonestBundle(w) EXCEPT !.proof = MalformedText] } :
            w \in ClientWitnesses }

\* the promises of the client that have not settled
PendingPromises == { d \in Calls : op[d] # "none" /\ settledFrom[d] = 0 }

\* mutant: a reply settles the oldest pending promise
ReplyTarget_Oldest(id, pending) ==
    CHOOSE p \in pending \cup {id} :
        pending # {} => (p \in pending /\ \A q \in pending : p <= q)

\* Comlink.wrap: a reply carries the id of its request and settles the promise
\* that was created for that id
ReplyTarget(id, pending) == id

\* the promise of call c has settled: for the client when the reply came
\* back, for a direct caller when the async function finished
Settled(c) ==
    IF engine = "worker" THEN settledFrom[c] # 0 ELSE pc[c] \in {"done", "failed"}

\* a client method called after the worker was stopped: the request is posted
\* to a context that no longer runs
PostToTerminated(c, o, a) ==
    /\ engine = "worker"
    /\ ~workerAlive
    /\ CanIssue(c)
    /\ op' = [op EXCEPT ![c] = o]
    /\ arg' = [arg EXCEPT ![c] = a]
    /\ pc' = [pc EXCEPT ![c] = "posted"]
    /\ UNCHANGED <<auxVars, clientVars, engine, compiledProgram, loc, cp, result, response,
                   compileStarts, compileFailed, proveLog, fromHere>>

\* `return await this.remoteApi.X(...)`: the reply of request c arrives and
\* settles a promise of the client
DeliverReply(c) ==
    /\ engine = "worker"
    /\ pc[c] \in {"done", "failed"}
    /\ \A d \in Calls : settledFrom[d] # c
    /\ ReplyTarget(c, PendingPromises) \in PendingPromises
    /\ settledFrom' = [settledFrom EXCEPT ![ReplyTarget(c, PendingPromises)] = c]
    /\ UNCHANGED <<auxVars, engine, compiledProgram, op, pc, arg, loc, cp, result, response,
                   compileStarts, compileFailed, proveLog, fromHere,
                   thisWorker, workerAlive, terminated>>

\* terminate(): `if (this.worker) this.worker.terminate()`, respectively
\* `this.worker.terminate()`; the page calls it once, on unmount
Terminate ==
    /\ thisWorker # Null
    /\ ~terminated
    /\ terminated' = TRUE
    /\ workerAlive' = (IF thisWorker # "undefined" THEN FALSE ELSE workerAlive)
    /\ UNCHANGED <<auxVars, engine, compiledProgram, op, pc, arg, loc, cp, result, response,
                   compileStarts, compileFailed, proveLog, fromHere,
                   thisWorker, settledFrom>>

\* a step of the backend for call c, in a context that runs
WorkerStep(c) ==
    /\ workerAlive
    /\ \/ BackendCompileOk(c)
       \/ BackendCompileFail(c)
       \/ BackendProveDone(c)
       \/ BackendProveFail(c)
       \/ BackendVerifyDone(c)

NextClient ==
    \/ \E c \in Calls, w \in ClientWitnesses : workerAlive /\ CallCreateProof(c, w)
    \/ \E c \in Calls, b \in ClientVerifyInputs : workerAlive /\ CallVerifyProof(c, b)
    \/ \E c \in Calls, w \in ClientWitnesses :
            workerAlive /\ CallCalculateExpectedHash(c, w)
    \/ \E c \in Calls : workerAlive /\ CallSayHi(c)
    \/ \E c \in Calls, w \in ClientWitnesses : PostToTerminated(c, "createProof", w)
    \/ \E c \in Calls, b \in ClientVerifyInputs : PostToTerminated(c, "verifyProof", b)
    \/ \E c \in Calls : WorkerStep(c)
    \/ \E c \in Calls : DeliverReply(c)
    \/ Terminate

\* the backend operations terminate and the event loop delivers messages
SpecClient ==
    /\ InitClient
    /\ [][NextClient]_vars
    /\ \A c \in Calls : WF_vars(WorkerStep(c)) /\ WF_vars(DeliverReply(c))

---------------------------------------------------------------------------
(* The encoder on its own: stringToField applied to two byte strings.      *)

\* everything but the variables of the pure functions is idle
IdleEngine ==
    /\ engine = "lib"
    /\ thisWorker = Null /\ workerAlive = TRUE /\ terminated = FALSE
    /\ settledFrom = [c \in Calls |-> 0]
    /\ compiledProgram = NullRef
    /\ op = [c \in Calls |-> "none"]
    /\ pc = [c \in Calls |-> "idle"]
    /\ arg = [c \in Calls |-> NoArgs]
    /\ loc = [c \in Calls |-> NoLocals]
    /\ cp = [c \in Calls |-> NullRef]
    /\ result = [c \in Calls |-> Pending]
    /\ response = [c \in Calls |-> NoResponse]
    /\ compileStarts = 0
    /\ compileFailed = FALSE
    /\ proveLog = {}
    /\ fromHere = [c \in Calls |-> FALSE]

engineVars == <<engine, compiledProgram, op, pc, arg, loc, cp, result, response,
                compileStarts, compileFailed, proveLog, fromHere, clientVars>>

\* the bytes TextEncoder yields for "\0", "1" and "a"
EncoderBytes == {0, 49, 97}

StringsOver(alphabet, n) == UNION { [1..k -> alphabet] : k \in 0..n }

\* outA, outB hold a field element once the call has returned
NotYet == -1

InitEncoder ==
    /\ IdleEngine
    /\ inA \in StringsOver(EncoderBytes, MaxLen)
    /\ inB \in StringsOver(EncoderBytes, MaxLen)
    /\ outA = NotYet /\ outB = NotYet
    /\ IdleStore /\ IdlePage

EncodeA ==
    /\ outA = NotYet
    /\ outA' = stringToField(inA)
    /\ UNCHANGED <<engineVars, storeVars, pageVars, inA, inB, outB>>

EncodeB ==
    /\ outB = NotYet
    /\ outB' = stringToField(inB)
    /\ UNCHANGED <<engineVars, storeVars, pageVars, inA, inB, outA>>

NextEncoder == EncodeA \/ EncodeB

SpecEncoder == InitEncoder /\ [][NextEncoder]_vars

---------------------------------------------------------------------------
(* Commitment, bundle and codec on their own: calculateExpectedHash and    *)
(* the encode / prove / serialise path of createProof applied to two       *)
(* inputs, and the decode path of verifyProof applied to the first bundle. *)

\* "A", "a", "1" in names; ids "a1" / "A1"; dobs "1" / "2"
FoldNames == StringsOver({65, 97, 49}, MaxLen - 1)
FoldTriples ==
    { [fullName |-> n, dob |-> d, idNumber |-> i] :
        n \in FoldNames, d \in {<<49>>, <<50>>}, i \in {<<97, 49>>, <<65, 49>>} }

With(f, k, v) == [x \in DOMAIN f \cup {k} |-> IF x = k THEN v ELSE f[x]]

InitCommit ==
    /\ IdleEngine
    /\ inA \in FoldTriples
    /\ inB \in FoldTriples
    /\ outA = <<>> /\ outB = <<>>
    /\ IdleStore /\ IdlePage

\* calculateExpectedHash(fullName, dob, idNumber)
HashA ==
    /\ "commitment" \notin DOMAIN outA
    /\ outA' = With(outA, "commitment",
                     calculateExpectedHash(inA.fullName, inA.dob, inA.idNumber))
    /\ UNCHANGED <<engineVars, storeVars, pageVars, inA, inB, outB>>

HashB ==
    /\ "commitment" \notin DOMAIN outB
    /\ outB' = With(outB, "commitment",
                     calculateExpectedHash(inB.fullName, inB.dob, inB.idNumber))
    /\ UNCHANGED <<engineVars, storeVars, pageVars, inA, inB, outA>>

\* createProof, lines 122-151, with a backend that proves the statement
ProveA ==
    /\ "bundle" \notin DOMAIN outA
    /\ ~MissingFields(inA)
    /\ outA' = With(outA, "bundle", HonestBundle(inA))
    /\ UNCHANGED <<engineVars, storeVars, pageVars, inA, inB, outB>>

ProveB ==
    /\ "bundle" \notin DOMAIN outB
    /\ ~MissingFields(inB)
    /\ outB' = With(outB, "bundle", HonestBundle(inB))
    /\ UNCHANGED <<engineVars, storeVars, pageVars, inA, inB, outA>>

\* verifyProof, lines 170-176: JSON.parse and KYCProof.fromJSON of the proof,
\* and JSON.parse of the verification key
DecodeA ==
    /\ "bundle" \in DOMAIN outA
    /\ "decoded" \notin DOMAIN outA
    /\ ~JsonParseThrows(outA.bundle.proof)
    /\ ~FromJSONThrows(JsonParse(outA.bundle.proof))
    /\ outA' = With(With(outA, "decoded", FromJSON(JsonParse(outA.bundle.proof))),
                     "decodedKey", JsonParse(outA.bundle.verificationKey))
    /\ UNCHANGED <<engineVars, storeVars, pageVars, inA, inB, outB>>

NextCommit == HashA \/ HashB \/ ProveA \/ ProveB \/ DecodeA

SpecCommit == InitCommit /\ [][NextCommit]_vars

---------------------------------------------------------------------------
(* The record store: a JSON file holding { records: KYCRecord[] }, read    *)
(* and rewritten whole by upsertRecord.  A record is its userId and the    *)
(* rest of its fields (val).                                               *)

\* userIds "u1", "u2"
UserIds == {<<117, 49>>, <<117, 50>>}
KYCRecords == [userId : UserIds, val : {1, 2}]

\* db.records.findIndex(record => record.userId == newRec.userId): 0 for -1
FindIndex(records, userId) ==
    IF \E i \in 1..Len(records) : records[i].userId = userId
    THEN CHOOSE i \in 1..Len(records) :
            /\ records[i].userId = userId
            /\ \A j \in 1..(i - 1) : records[j].userId # userId
    ELSE 0

\* mutant: the new record is always pushed
UpsertInto_Push(records, newRec) == Append(records, newRec)

\* if (idx === -1) db.records.push(newRec); else db.records[idx] = newRec;
UpsertInto(records, newRec) ==
    IF FindIndex(records, newRec.userId) = 0
    THEN Append(records, newRec)
    ELSE [records EXCEPT ![FindIndex(records, newRec.userId)] = newRec]

\* db.records.find(record => record.userId === userId): {} for undefined
Find(records, userId) ==
    IF FindIndex(records, userId) = 0 THEN {}
    ELSE {records[FindIndex(records, userId)]}

UniqueKeys(records) ==
    \A i, j \in 1..Len(records) : records[i].userId = records[j].userId => i = j

\* the stores with at most one record per userId
InitialStores ==
    { f \in UNION { [1..k -> KYCRecords] : k \in 0..2 } : UniqueKeys(f) }

InitStore ==
    /\ IdleEngine /\ IdlePure /\ IdlePage
    /\ dbFile \in InitialStores
    /\ upsert = [p \in Upserts |-> [pc |-> "idle"]]
    /\ lastUpsert = [u \in UserIds |-> Find(dbFile, u)]
    /\ got = <<>>

Busy == { p \in Upserts : upsert[p].pc \in {"reading", "writing"} }

\* upsertRecord(newRec) is called: readDB() starts fs.readFile
UpsertStart(p, newRec) ==
    /\ upsert[p].pc = "idle"
    /\ \A q \in Upserts : q < p => upsert[q].pc # "idle"
    /\ upsert' = [upsert EXCEPT ![p] = [pc |-> "reading", newRec |-> newRec]]
    /\ UNCHANGED <<engineVars, pureVars, pageVars, dbFile, lastUpsert, got>>

\* fs.readFile resolves with the file as it is now; the record is put into
\* the parsed object and writeDB starts fs.writeFile
UpsertRead(p) ==
    /\ upsert[p].pc = "reading"
    /\ upsert' = [upsert EXCEPT ![p] =
                    [pc |-> "writing", newRec |-> upsert[p].newRec,
                     db |-> UpsertInto(dbFile, upsert[p].newRec)]]
    /\ UNCHANGED <<engineVars, pureVars, pageVars, dbFile, lastUpsert, got>>

\* fs.writeFile replaces the file by the object and resolves; upsertRecord
\* returns newRec
UpsertWrite(p) ==
    /\ upsert[p].pc = "writing"
    /\ dbFile' = upsert[p].db
    /\ upsert' = [upsert EXCEPT ![p] = [pc |-> "done", newRec |-> upsert[p].newRec]]
    /\ lastUpsert' = [lastUpsert EXCEPT ![upsert[p].newRec.userId] = {upsert[p].newRec}]
    /\ UNCHANGED <<engineVars, pureVars, pageVars, got>>

\* getRecord(userId), called while no upsert is running
GetRecord(userId) ==
    /\ Busy = {}
    /\ got' = <<[userId |-> userId, result |-> Find(dbFile, userId)]>>
    /\ UNCHANGED <<engineVars, pureVars, pageVars, dbFile, upsert, lastUpsert>>

\* upsertRecord calls run one at a time
NextStoreOneAtATime ==
    \/ \E p \in Upserts, r \in KYCRecords : Busy = {} /\ UpsertStart(p, r)
    \/ \E p \in Upserts : UpsertRead(p)
    \/ \E p \in Upserts : UpsertWrite(p)
    \/ \E u \in UserIds : GetRecord(u)

SpecStoreOneAtATime == InitStore /\ [][NextStoreOneAtATime]_vars

\* upsertRecord calls of concurrent requests
NextStore ==
    \/ \E p \in Upserts, r \in KYCRecords : UpsertStart(p, r)
    \/ \E p \in Upserts : UpsertRead(p)
    \/ \E p \in Upserts : UpsertWrite(p)
    \/ \E u \in UserIds : GetRecord(u)

SpecStore == InitStore /\ [][NextStore]_vars

---------------------------------------------------------------------------
(* The page (src/app/page.tsx): its state, the two click handlers and      *)
(* their continuations when the worker call they await settles.  The       *)
(* worker is seen from the page: a createProof call resolves with the      *)
(* bundle for its arguments or rejects, a verifyProof call resolves with   *)
(* a boolean.                                                              *)

\* what the user can have typed: two identities, one without dob, one
\* without userId
Forms ==
    { [userId |-> <<117, 49>>, fullName |-> <<97, 98>>, dob |-> <<49>>, idNumber |-> <<97, 49>>],
      [userId |-> <<117, 49>>, fullName |-> <<97, 98>>, dob |-> <<49>>, idNumber |-> <<97, 50>>],
      [userId |-> <<117, 49>>, fullName |-> <<97, 98>>, dob |-> <<>>,   idNumber |-> <<97, 49>>],
      [userId |-> <<>>,        fullName |-> <<97, 98>>, dob |-> <<49>>, idNumber |-> <<97, 49>>] }

\* mutant: userId is not looked at
FormIncomplete_NoUserId(f) == HasEmptyField(f)

\* !userId || !fullName || !dob || !idNumber
FormIncomplete(f) == f.userId = <<>> \/ HasEmptyField(f)

\* submitResult?.zkProof is there
HasProof(sr) == sr.kind = "ok"

InitPage ==
    /\ IdleEngine /\ IdlePure /\ IdleStore
    /\ form \in Forms
    /\ loading = "null"
    /\ submitResult = [kind |-> "null"]
    /\ verifyResult = [kind |-> "null"]
    /\ inflight = {}
    /\ issued = 0
    /\ sent = {}
    /\ returned = {}

\* onChange of the inputs
SetForm(f) ==
    /\ form # f
    /\ form' = f
    /\ UNCHANGED <<engineVars, pureVars, storeVars, loading, submitResult,
                   verifyResult, inflight, issued, sent, returned>>

\* the handler calls the worker client and awaits the answer
SendToWorker(kind, a, userId) ==
    /\ issued < MaxRequests
    /\ issued' = issued + 1
    /\ inflight' = inflight \cup {[id |-> issued + 1, kind |-> kind, arg |-> a,
                                    userId |-> userId]}
    /\ sent' = sent \cup {[kind |-> kind, arg |-> a, userId |-> userId]}

\* a click on the submit button (disabled while loading === "submit"):
\* onSubmit up to its return or its await, lines 32-55
ClickSubmit ==
    /\ loading # "submit"
    /\ verifyResult' = [kind |-> "null"]
    /\ IF FormIncomplete(form)
       THEN /\ submitResult' = [kind |-> "error", error |-> "All fields are required"]
            /\ loading' = "null"
            /\ UNCHANGED <<inflight, issued, sent>>
       ELSE /\ SendToWorker("createProof",
                            [fullName |-> form.fullName, dob |-> form.dob,
                             idNumber |-> form.idNumber], form.userId)
            /\ loading' = "submit"
            /\ UNCHANGED submitResult
    /\ UNCHANGED <<engineVars, pureVars, storeVars, form, returned>>

\* a click on the verify button (disabled while loading === "verify"):
\* onVerify up to its return or its await, lines 76-94
ClickVerify ==
    /\ loading # "verify"
    /\ IF ~HasProof(submitResult)
       THEN /\ verifyResult' = [kind |-> "error",
                                 error |-> "No proof available. Please generate a proof first."]
            /\ loading' = "null"
            /\ UNCHANGED <<inflight, issued, sent>>
       ELSE /\ SendToWorker("verifyProof", submitResult.zkProof, submitResult.userId)
            /\ loading' = "verify"
            /\ UNCHANGED verifyResult
    /\ UNCHANGED <<engineVars, pureVars, storeVars, form, submitResult, returned>>

\* createProof of request r resolves: onSubmit lines 57-64 and 72
CreateProofResolves(r) ==
    /\ r \in inflight /\ r.kind = "createProof"
    /\ inflight' = inflight \ {r}
    /\ submitResult' = [kind |-> "ok", userId |-> r.userId,
                         expectedHash |-> HonestBundle(r.arg).publicOutput,
                         zkProof |-> HonestBundle(r.arg)]
    /\ returned' = returned \cup {HonestBundle(r.arg)}
    /\ loading' = "null"
    /\ UNCHANGED <<engineVars, pureVars, storeVars, form, verifyResult, issued, sent>>

\* createProof of request r rejects: onSubmit lines 65-72
CreateProofRejects(r) ==
    /\ r \in inflight /\ r.kind = "createProof"
    /\ inflight' = inflight \ {r}
    /\ submitResult' = [kind |-> "error", error |-> "Failed to generate proof"]
    /\ loading' = "null"
    /\ UNCHANGED <<engineVars, pureVars, storeVars, form, verifyResult, issued, sent,
                   returned>>

\* verifyProof of request r resolves with isValid: onVerify lines 96-101, 109;
\* `of` remembers which bundle the answer is about
VerifyProofResolves(r, isValid) ==
    /\ r \in inflight /\ r.kind = "verifyProof"
    /\ inflight' = inflight \ {r}
    /\ verifyResult' = [kind |-> "verified", verified |-> isValid, of |-> r.arg]
    /\ loading' = "null"
    /\ UNCHANGED <<engineVars, pureVars, storeVars, form, submitResult, issued, sent,
                   returned>>

NextPage ==
    \/ \E f \in Forms : SetForm(f)
    \/ ClickSubmit
    \/ ClickVerify
    \/ \E r \in inflight : CreateProofResolves(r)
    \/ \E r \in inflight : CreateProofRejects(r)
    \/ \E r \in { x \in inflight : x.kind = "verifyProof" } :
            \E isValid \in {ValidProof(r.arg.proof), FALSE} :
                VerifyProofResolves(r, isValid)

SpecPage == InitPage /\ [][NextPage]_vars

---------------------------------------------------------------------------
(* Properties *)

InFlight == { c \in Calls : pc[c] = "compiling" }

\* C1: single-flight compilation: at no time are two backend compilations
\* (KYCProgram.compile()) in flight in one process, so calls that start before
\* the first compilation has completed start the backend exactly once.
C1_SingleFlight == Cardinality(InFlight) <= 1

\* the statement (commitment) the proof string of a serialized proof proves
ProvenCommitment(text) == FieldToString(JsonParse(text).proof)

\* C2: verifyProof(bundle) returns true only if bundle.proof was produced for
\* exactly the commitment carried in bundle.publicOutput.
C2_VerifyBindsCommitment ==
    \A c \in Calls :
        (IsVerify(op[c]) /\ pc[c] = "done" /\ Outcome(result[c]) = TRUE)
            => /\ ~JsonParseThrows(arg[c].proof)
               /\ ProvenCommitment(arg[c].proof) = arg[c].publicOutput

\* C3: the verify stage answers with a boolean `verified` that equals the
\* result of verifyProof on the submitted bundle.
C3_VerifyStageAnswer ==
    \A c \in Calls :
        (op[c] = "verify" /\ pc[c] = "done")
            => response[c].body.verified = JsonOfBoolean(Outcome(result[c]))

\* C4: every compileProgram call that returns successfully in one process
\* returns the same CompiledProgram object.
C4_SameCompiledProgram ==
    \A c, d \in Calls :
        (cp[c] # NullRef /\ cp[d] # NullRef) => cp[c] = cp[d]

\* C5: once the cached compiledProgram is present it is never reassigned,
\* replaced or cleared.
C5_CacheImmutable ==
    [][compiledProgram # NullRef => compiledProgram' = compiledProgram]_vars

\* the fields and the commitment of a witness, as the circuit relates them
EncodedWitness(w) ==
    << stringToField(ToUpperCase(w.fullName)), stringToField(w.dob),
       stringToField(ToUpperCase(w.idNumber)) >>

\* C6: soundness: the backend prove is only ever entered with a public input
\* equal to the Poseidon hash of the three encoded private fields of the call,
\* and no proof is produced for a public input c and a witness w with
\* c # Hash(w).
C6_Soundness ==
    /\ \A e \in proveLog : e.publicInput = PoseidonHash(e.witness)
    /\ \A c \in Calls :
          (IsCreate(op[c]) /\ pc[c] \in {"proving", "done"})
             => \E e \in proveLog :
                   /\ e.witness = EncodedWitness(arg[c])
                   /\ e.publicInput = PoseidonHash(EncodedWitness(arg[c]))

C6_Witness == \E e \in proveLog : e.produced

\* C7: completeness: a bundle that createProof returned in this process
\* verifies: verifyProof on it returns true.
C7_Completeness ==
    \A c \in Calls :
        (IsVerify(op[c]) /\ pc[c] = "done" /\ fromHere[c]) => Outcome(result[c]) = TRUE

C7_Witness ==
    \E c \in Calls :
        op[c] = "verifyProof" /\ pc[c] = "done" /\ fromHere[c] /\ Outcome(result[c]) = TRUE

\* C8: the publicOutput of every bundle createProof returns (library and
\* worker) equals calculateExpectedHash of the same three input strings, and
\* the commit stage's expectedHash equals zkProof.publicOutput.
C8_PublicOutputRecomputed ==
    \A c \in Calls :
        (IsCreate(op[c]) /\ pc[c] = "done")
            => /\ Outcome(result[c]).publicOutput =
                    calculateExpectedHash(arg[c].fullName, arg[c].dob, arg[c].idNumber)
               /\ op[c] = "submit" =>
                    response[c].body.expectedHash = response[c].body.zkProof.publicOutput

C8_Witness ==
    \E c \in Calls :
        /\ op[c] = "submit" /\ pc[c] = "done" /\ response[c].status = 200
        /\ arg[c].idNumber # ToUpperCase(arg[c].idNumber)

\* C11: decoding a malformed serialized proof fails with a parse error that
\* surfaces to the caller: a verifyProof call on such a proof does not resolve
\* normally (to a boolean).
C11_DecodeErrorSurfaces ==
    \A c \in Calls :
        (IsVerify(op[c]) /\ pc[c] = "done") => ~MalformedProof(arg[c].proof)

\* C12: verifyProof is total: for every bundle the call resolves to a boolean
\* and never rejects, and it resolves to false whenever the proof is not a
\* valid proof (tampered, not JSON, of the wrong shape).
C12_VerifyTotal ==
    \A c \in Calls :
        /\ op[c] = "verifyProof" => pc[c] # "failed"
        /\ (IsVerify(op[c]) /\ pc[c] = "done")
              => /\ Outcome(result[c]) \in BOOLEAN
                 /\ ~ValidProof(arg[c].proof) => Outcome(result[c]) = FALSE

C12_Witness ==
    \E c, d \in Calls :
        /\ op[c] = "verifyProof" /\ pc[c] = "done"
        /\ ~JsonParseThrows(arg[c].proof) /\ ~ValidProof(arg[c].proof)
        /\ Outcome(result[c]) = FALSE
        /\ op[d] = "verifyProof" /\ pc[d] = "done" /\ JsonParseThrows(arg[d].proof)

\* call c did no cryptographic work in this step: no field was encoded, no
\* compilation and no proving was started, the key cache is unchanged
NoCryptoWork(c) ==
    /\ loc'[c] = NoLocals
    /\ cp' = cp
    /\ compileStarts' = compileStarts
    /\ proveLog' = proveLog
    /\ compiledProgram' = compiledProgram

\* C13: createProof (src/lib/zk.ts) called with any of fullName, dob or
\* idNumber empty fails with the validation error before any cryptographic
\* work begins, and the commit stage answers 400 without calling createProof.
C13_ValidationFirst ==
    [][\A c \in Calls :
          /\ (engine = "lib" /\ op[c] = "none" /\ op'[c] = "createProof"
                 /\ HasEmptyField(arg'[c]))
               => /\ pc'[c] = "failed"
                  /\ Outcome(result'[c]) = "Missing required fields"
                  /\ NoCryptoWork(c)
          /\ (op[c] = "none" /\ op'[c] = "submit"
                 /\ (arg'[c].userId = <<>> \/ HasEmptyField(arg'[c])))
               => /\ pc'[c] = "failed"
                  /\ response'[c].status = 400
                  /\ result' = result
                  /\ NoCryptoWork(c)]_vars

C13_Witness ==
    \E c, d \in Calls :
        /\ engine = "lib"
        /\ op[c] = "createProof" /\ arg[c].dob = <<>> /\ pc[c] = "failed"
        /\ op[d] = "submit" /\ arg[d].idNumber = <<>> /\ pc[d] = "failed"

\* C14: compile-before-use: the backend prove / verify is only invoked in a
\* state where the compiled program is present, the call having first waited
\* for compileProgram.
C14_CompileBeforeUse ==
    \A c \in Calls :
        pc[c] \in {"proving", "verifying"}
            => compiledProgram # NullRef /\ cp[c] # NullRef

C14_Witness ==
    \E c, d \in Calls :
        /\ pc[c] = "proving" /\ pc[d] = "verifying"
        /\ compileStarts >= 1

PartialKeys == {"zkProof", "proof", "publicOutput", "verificationKey", "expectedHash"}

\* C15: the commit stage returns either the complete AttestationBundle
\* (proof, publicOutput and verificationKey all present) or a structured
\* error carrying none of them.
C15_BundleOrError ==
    \A c \in Calls :
        (op[c] = "submit" /\ pc[c] \in {"done", "failed"})
            => LET b == response[c].body IN
               IF response[c].status = 200
               THEN /\ pc[c] = "done"
                    /\ "zkProof" \in DOMAIN b
                    /\ DOMAIN b.zkProof = {"proof", "publicOutput", "verificationKey"}
                    /\ ValidProof(b.zkProof.proof)
                    /\ b.zkProof.publicOutput = b.expectedHash
                    /\ JsonParse(b.zkProof.verificationKey)
                          = VerificationKeyToJSON(VerificationKey)
               ELSE /\ pc[c] = "failed"
                    /\ "error" \in DOMAIN b
                    /\ DOMAIN b \cap PartialKeys = {}

C15_Witness ==
    \E c, d \in Calls :
        /\ op[c] = "submit" /\ pc[c] = "failed" /\ response[c].status = 500
        /\ op[d] = "submit" /\ pc[d] = "done"

\* the raw identity strings of a call and their encoded field elements
RawStrings(w) == {w.fullName, w.dob, w.idNumber} \ {<<>>}
EncodedFields(w) == { stringToField(ToUpperCase(x)) : x \in RawStrings(w) }
                    \cup { stringToField(x) : x \in RawStrings(w) }

\* the texts and the numbers a bundle carries
BundleTexts(b) ==
    {b.publicOutput}
    \cup (IF JsonParseThrows(b.proof) THEN {}
          ELSE { JsonParse(b.proof).publicInput[i] :
                    i \in 1..Len(JsonParse(b.proof).publicInput) })
BundleNumbers(b) ==
    IF JsonParseThrows(b.proof) THEN {} ELSE {JsonParse(b.proof).proof}

\* the texts of a response body, apart from its fixed messages
FixedKeys == {"ok", "status", "error", "details", "hint", "message", "zkProof", "verified"}
BodyTexts(b) ==
    { b[k] : k \in DOMAIN b \ FixedKeys }
    \cup (IF "zkProof" \in DOMAIN b THEN BundleTexts(b.zkProof) ELSE {})
BodyNumbers(b) == IF "zkProof" \in DOMAIN b THEN BundleNumbers(b.zkProof) ELSE {}

\* C16: the witness never crosses the engine boundary: no value returned by
\* createProof or calculateExpectedHash and no commit-stage response contains
\* the raw fullName, dob or idNumber of the call or their encoded field
\* elements (verifyProof returns a boolean).
C16_WitnessStaysInside ==
    \A c \in Calls :
        /\ (IsCreate(op[c]) /\ pc[c] = "done")
              => /\ BundleTexts(Outcome(result[c])) \cap RawStrings(arg[c]) = {}
                 /\ BundleNumbers(Outcome(result[c])) \cap EncodedFields(arg[c]) = {}
        /\ (op[c] = "submit" /\ pc[c] \in {"done", "failed"})
              => /\ BodyTexts(response[c].body) \cap RawStrings(arg[c]) = {}
                 /\ BodyNumbers(response[c].body) \cap EncodedFields(arg[c]) = {}
        /\ op[c] = "calculateExpectedHash" => Outcome(result[c]) \notin RawStrings(arg[c])
        /\ (IsVerify(op[c]) /\ pc[c] = "done") => Outcome(result[c]) \in BOOLEAN

C16_Witness ==
    \E c, d \in Calls :
        /\ op[c] = "submit" /\ pc[c] = "done"
        /\ op[d] = "submit" /\ pc[d] = "failed" /\ response[d].status = 500

\* C20: calculateExpectedHash (and the liveness probe sayHi) returns only the
\* commitment string (respectively the fixed greeting) and has no effect on
\* engine state: no compilation, prove or verify is started and the cached
\* compiledProgram is unchanged.
C20_HashOnlyNoEffect ==
    [][\A c \in Calls :
          (op[c] = "none" /\ op'[c] \in {"calculateExpectedHash", "sayHi"})
             => /\ pc'[c] = "done"
                /\ Outcome(result'[c]) =
                      (IF op'[c] = "sayHi" THEN "Hello from the ZK worker!"
                       ELSE FieldToString(PoseidonHash(EncodedWitness(arg'[c]))))
                /\ compiledProgram' = compiledProgram
                /\ compileStarts' = compileStarts
                /\ compileFailed' = compileFailed
                /\ proveLog' = proveLog
                /\ cp' = cp /\ loc' = loc
                /\ \A d \in Calls \ {c} : pc'[d] = pc[d] /\ op'[d] = op[d]]_vars

C20_Witness ==
    \E c, d \in Calls :
        /\ op[c] = "calculateExpectedHash" /\ compiledProgram # NullRef
        /\ op[d] # "calculateExpectedHash"

\* C17: after the owner calls terminate() on the worker client the worker
\* context is stopped: the worker does no further compilation, proving or
\* verification, and the calls it was working on are abandoned (their
\* promises never settle).
C17_TerminateStopsWorker ==
    [][terminated =>
          /\ compileStarts' = compileStarts
          /\ compiledProgram' = compiledProgram
          /\ proveLog' = proveLog
          /\ \A c \in Calls :
                pc[c] \in {"compiling", "proving", "verifying"}
                    => pc'[c] = pc[c] /\ settledFrom'[c] = settledFrom[c]]_vars

Rank(p) ==
    CASE p = "idle" -> 0
      [] p = "compiling" -> 1
      [] p \in {"proving", "verifying"} -> 2
      [] OTHER -> 3

\* C19: every issued createProof or verifyProof call eventually completes
\* with a result or a failure, provided the backend operations terminate and
\* the execution context is not terminated; the engine never runs a stage of
\* a call again and a completed call stays completed.
C19_CallsComplete ==
    /\ \A c \in Calls :
          (op[c] \in {"createProof", "verifyProof"} /\ pc[c] # "posted")
              ~> (Settled(c) \/ ~workerAlive)
    /\ [][\A c \in Calls :
            /\ pc'[c] # pc[c] => Rank(pc'[c]) > Rank(pc[c])
            /\ pc[c] \in {"done", "failed"} => result'[c] = result[c]
            /\ compileStarts' <= compileStarts + 1]_vars

C19_Witness ==
    \E c, d \in Calls :
        /\ engine = "worker" /\ workerAlive
        /\ op[c] = "createProof" /\ pc[c] = "failed" /\ settledFrom[c] = c
        /\ op[d] = "verifyProof" /\ pc[d] = "done" /\ settledFrom[d] = d

\* the base-256 little-endian integer of a byte string, low byte first
RECURSIVE LittleEndian(_)
LittleEndian(bytes) ==
    IF bytes = <<>> THEN 0 ELSE Head(bytes) + 256 * LittleEndian(Tail(bytes))

C30_AliasOnlyByReduction ==
    (/\ outA # NotYet /\ outB # NotYet
     /\ inA # inB
     /\ LittleEndian(inA) < FieldModulus
     /\ LittleEndian(inB) < FieldModulus)
        => outA # outB

IsLetter(ch) == (ch >= 65 /\ ch <= 90) \/ (ch >= 97 /\ ch <= 122)

\* two strings that differ only in letter case
SameUpToCase(x, y) ==
    /\ Len(x) = Len(y)
    /\ \A i \in 1..Len(x) :
          \/ x[i] = y[i]
          \/ IsLetter(x[i]) /\ IsLetter(y[i]) /\ (x[i] - y[i] = 32 \/ y[i] - x[i] = 32)

ProofOf(w) ==
    BackendProof(CreateProofLocals(w.fullName, w.dob, w.idNumber).expectedHash)

\* the proof half of the round trip
ProofRoundTrip == "decoded" \in DOMAIN outA => outA.decoded = ProofOf(inA)

C24_StoreKeyedByUser ==
    [][/\ UniqueKeys(dbFile')
       /\ got' # got
            => got'[1].result = lastUpsert[got'[1].userId]]_vars

C24_Witness ==
    /\ \A p \in Upserts : upsert[p].pc = "done"
    /\ upsert[1].newRec.userId = upsert[2].newRec.userId
    /\ upsert[1].newRec # upsert[2].newRec
    /\ got # <<>> /\ got[1].result = {upsert[2].newRec}
    /\ Len(dbFile) = 2

\* C25: no lost update in the record store: when two upsertRecord calls for
\* different userIds run concurrently and both complete, the store contains
\* both records.
C25_NoLostUpdate ==
    \A p, q \in Upserts :
        (/\ upsert[p].pc = "done" /\ upsert[q].pc = "done"
         /\ upsert[p].newRec.userId # upsert[q].newRec.userId)
            => /\ Find(dbFile, upsert[p].newRec.userId) # {}
               /\ Find(dbFile, upsert[q].newRec.userId) # {}

\* C26: in the page at most one createProof call is in flight at any time.
C26_OneCreateProofInFlight ==
    Cardinality({ r \in inflight : r.kind = "createProof" }) <= 1

\* C27: in the page, a displayed verification result always refers to the
\* proof currently held in submitResult.
C27_VerifyResultIsCurrent ==
    verifyResult.kind = "verified"
        => HasProof(submitResult) /\ verifyResult.of = submitResult.zkProof

\* C28: in the page, verifyProof is sent to the worker only with a bundle a
\* successful createProof of that page returned; without one (before any
\* successful submit, after a failed or rejected one) onVerify makes no
\* worker call and reports an error; onSubmit with any of userId, fullName,
\* dob, idNumber empty makes no worker call.
C28_PageSendsOnlyValid ==
    [][/\ \A m \in sent' :
            /\ m.kind = "verifyProof" => m.arg \in returned'
            /\ m.kind = "createProof" => m.userId # <<>> /\ ~HasEmptyField(m.arg)
       /\ (ClickVerify /\ ~HasProof(submitResult))
            => sent' = sent /\ inflight' = inflight /\ verifyResult'.kind = "error"
       /\ (ClickSubmit /\ (form.userId = <<>> \/ HasEmptyField(form)))
            => sent' = sent /\ inflight' = inflight /\ submitResult'.kind = "error"]_vars

\* a verify was sent after a success, and later a verify click found an
\* error in submitResult
C28_Witness ==
    /\ \E m \in sent : m.kind = "verifyProof"
    /\ submitResult.kind = "error"
    /\ verifyResult.kind = "error"

\* what createProof of src/lib/zk.ts does with a triple that has an empty
\* field: it throws before encoding, and never reaches compileProgram
LibRejects(c) ==
    /\ pc[c] = "failed"
    /\ Outcome(result[c]) = "Missing required fields"
    /\ cp[c] = NullRef
    /\ loc[c] = NoLocals

\* C29: the offloaded operations are equivalent to the library ones: for
\* every input triple, including ones with an empty field, createProof has
\* the same outcome and the same effect on the key cache in the worker as in
\* src/lib/zk.ts, and calculateExpectedHash returns the same string.
C29_WorkerAsLibrary ==
    \A c \in Calls :
        /\ (op[c] = "createProof" /\ HasEmptyField(arg[c])) => LibRejects(c)
        /\ op[c] = "calculateExpectedHash"
              => Outcome(result[c]) = calculateExpectedHash(arg[c].fullName, arg[c].dob,
                                                   arg[c].idNumber)

\* C9: a backend compilation failure propagates to every dependent operation
\* as a compilation error: the call waiting on it fails with that error
\* (verifyProof does not turn it into the result false).
C9_CompileErrorPropagates ==
    [][\A c \in Calls :
          BackendCompileFail(c) => (pc'[c] = "failed" /\ Outcome(result'[c]) = "CompileError")]_vars

\* C10: after KYCProgram.compile() has failed once, no later call starts the
\* backend compilation again.
C10_NoRecompileAfterFailure ==
    [][compileFailed => compileStarts' = compileStarts]_vars

=============================================================================
